---- MODULE Spec2Model ----
(***************************************************************************)
(* Model of WebScrapping.py: the blog search service.  One request is      *)
(* followed from the sitemap crawl (a fan-out of child-sitemap fetches),   *)
(* through the title fan-out, the slug/title matcher, the content fetch    *)
(* and extraction, to the response of the /search-blog endpoint.           *)
(*                                                                         *)
(* Python strings are sequences of one-character strings.  An Optional     *)
(* value is a sequence of length 0 (None) or 1 (the value); a result of    *)
(* get_title_from_url is None or the pair <<title, url>>.                  *)
(***************************************************************************)
EXTENDS Integers, Sequences, FiniteSets, TLC

None == <<>>
Some(x) == <<x>>

Min(x, y) == IF x <= y THEN x ELSE y

\* ------------------------------------------------------------------ str
\* The printable ASCII characters in code-point order, from " " (32); the
\* three that a TLA+ string cannot hold as written are spelled out.
Ascii ==
    <<" ","!","DQUOTE","#","$","%","&","'","(",")","*","+",",","-",".","/",
      "0","1","2","3","4","5","6","7","8","9",":",";","<","=",">","?","@",
      "A","B","C","D","E","F","G","H","I","J","K","L","M","N","O","P","Q",
      "R","S","T","U","V","W","X","Y","Z","[","BACKSLASH","]","^","_","BACKTICK",
      "a","b","c","d","e","f","g","h","i","j","k","l","m","n","o","p","q",
      "r","s","t","u","v","w","x","y","z","{","|","}","~">>

\* ord(c) of a printable character.
Ord(c) == 31 + CHOOSE i \in 1..Len(Ascii) : Ascii[i] = c

\* str.lower() on one character: "A".."Z" (65..90) move up by 32.
LowerChar(c) ==
    IF Ord(c) >= 65 /\ Ord(c) <= 90 THEN Ascii[Ord(c) + 32 - 31] ELSE c

\* str.lower()
Lower(s) == [i \in 1..Len(s) |-> LowerChar(s[i])]

\* str.replace(old, new) for one-character old and new.
Replace(s, old, new) == [i \in 1..Len(s) |-> IF s[i] = old THEN new ELSE s[i]]

\* Python's s[lo:hi] with 0 <= lo, hi (0-based, hi exclusive, clipped).
Slice(s, lo, hi) ==
    IF Min(hi, Len(s)) <= lo THEN <<>> ELSE SubSeq(s, lo + 1, Min(hi, Len(s)))

\* s.startswith(p) at 0-based offset k.
MatchAt(s, p, k) ==
    /\ k + Len(p) <= Len(s)
    /\ \A t \in 1..Len(p) : s[k + t] = p[t]

\* `sub in s`
Contains(s, sub) == \E k \in 0..Len(s) : MatchAt(s, sub, k)

\* s.find(c, from): the first 0-based index >= from holding c, or -1.
Find(s, c, from) ==
    IF \E k \in from..(Len(s) - 1) : s[k + 1] = c
    THEN CHOOSE k \in from..(Len(s) - 1) :
             /\ s[k + 1] = c
             /\ \A m \in from..(k - 1) : s[m + 1] # c
    ELSE -1

\* s.split(sep) for a one-character separator: always at least one part.
RECURSIVE Split(_, _)
Split(s, sep) ==
    LET k == Find(s, sep, 0)
    IN  IF k = -1 THEN <<s>>
        ELSE <<Slice(s, 0, k)>> \o Split(Slice(s, k + 1, Len(s)), sep)

\* sep.join(parts) for a one-character separator.
RECURSIVE Join(_, _)
Join(parts, sep) ==
    IF parts = <<>> THEN <<>>
    ELSE IF Len(parts) = 1 THEN parts[1]
    ELSE parts[1] \o <<sep>> \o Join(Tail(parts), sep)

IsSpace(c) == c \in {" ", "\n", "\t", "\r"}

\* str.strip()
Strip(s) ==
    LET keep == {i \in 1..Len(s) : ~IsSpace(s[i])}
    IN  IF keep = {} THEN <<>>
        ELSE LET lo == CHOOSE i \in keep : \A j \in keep : i <= j
                 hi == CHOOSE i \in keep : \A j \in keep : i >= j
             IN  SubSeq(s, lo, hi)

\* Python's s < t on strings: lexicographic by code point.
StrLess(s, t) ==
    \/ /\ Len(s) < Len(t)
       /\ \A i \in 1..Len(s) : s[i] = t[i]
    \/ \E k \in 1..Min(Len(s), Len(t)) :
           /\ \A i \in 1..(k - 1) : s[i] = t[i]
           /\ Ord(s[k]) < Ord(t[k])

\* -------------------------------------------------------------- difflib
\* difflib.SequenceMatcher(None, a, b) without junk: the autojunk heuristic
\* only acts on a second sequence of 200 or more elements, and every query
\* of the model is shorter.

\* The length of the longest common run a[i:i+k] == b[j:j+k] inside the
\* windows that end at ahi and bhi.
RECURSIVE run_length(_, _, _, _, _, _)
run_length(a, b, i, ahi, j, bhi) ==
    IF i < ahi /\ j < bhi /\ a[i + 1] = b[j + 1]
    THEN 1 + run_length(a, b, i + 1, ahi, j + 1, bhi)
    ELSE 0

\* find_longest_match(alo, ahi, blo, bhi): the longest block a[i:i+k] ==
\* b[j:j+k] inside the two windows; of the longest, the one starting
\* earliest in a, and of those the one starting earliest in b; (alo, blo, 0)
\* when nothing matches.  Offsets are 0-based and the his exclusive.
find_longest_match(a, b, alo, ahi, blo, bhi) ==
    LET runs == {<<i, j, run_length(a, b, i, ahi, j, bhi)>> :
                    <<i, j>> \in {p \in (alo..(ahi - 1)) \X (blo..(bhi - 1)) :
                                     a[p[1] + 1] = b[p[2] + 1]}}
        Better(m, n) ==
            \/ m[3] > n[3]
            \/ m[3] = n[3] /\ m[1] < n[1]
            \/ m[3] = n[3] /\ m[1] = n[1] /\ m[2] <= n[2]
    IN  IF runs = {} THEN <<alo, blo, 0>>
        ELSE CHOOSE m \in runs : \A n \in runs : Better(m, n)

\* get_matching_blocks(), summed: the total size of the blocks found by
\* splitting around the longest match m and recursing to its left and right.
RECURSIVE matches(_, _, _, _, _, _)
matches_around(a, b, alo, ahi, blo, bhi, m) ==
    IF m[3] = 0 THEN 0
    ELSE m[3]
         + (IF alo < m[1] /\ blo < m[2]
            THEN matches(a, b, alo, m[1], blo, m[2]) ELSE 0)
         + (IF m[1] + m[3] < ahi /\ m[2] + m[3] < bhi
            THEN matches(a, b, m[1] + m[3], ahi, m[2] + m[3], bhi) ELSE 0)

matches(a, b, alo, ahi, blo, bhi) ==
    matches_around(a, b, alo, ahi, blo, bhi,
                   find_longest_match(a, b, alo, ahi, blo, bhi))

\* ratio() = 2.0 * matches / (len(a) + len(b)), and 1.0 for two empty
\* sequences, kept as the exact fraction <<numerator, denominator>>.
ratio(a, b) ==
    IF Len(a) + Len(b) = 0 THEN <<1, 1>>
    ELSE <<2 * matches(a, b, 0, Len(a), 0, Len(b)), Len(a) + Len(b)>>

\* r >= num/den on fractions.
AtLeast(r, num, den) == r[1] * den >= num * r[2]

\* (score1, x1) < (score2, x2) on Python tuples of a float and a string.
ScoredLess(r1, x1, r2, x2) ==
    \/ r1[1] * r2[2] < r2[1] * r1[2]
    \/ r1[1] * r2[2] = r2[1] * r1[2] /\ StrLess(x1, x2)

\* difflib.get_close_matches(word, possibilities, n=1, cutoff=num/den):
\* the possibilities x with SequenceMatcher(x, word).ratio() >= cutoff
\* (real_quick_ratio and quick_ratio are upper bounds of ratio, so they
\* reject nothing that ratio accepts), then heapq.nlargest(1, ...) of the
\* (score, x) tuples: the greatest tuple, ties on the score going to the
\* greater string.  The possibilities are the keys of a dict, so distinct,
\* and their order cannot change the greatest tuple.
get_close_matches(word, possibilities, num, den) ==
    LET scored == {<<ratio(x, word), x>> : x \in possibilities}
        result == {t \in scored : AtLeast(t[1], num, den)}
    IN  IF result = {} THEN <<>>
        ELSE <<(CHOOSE t \in result :
                    \A u \in result \ {t} : ScoredLess(u[1], u[2], t[1], t[2]))[2]>>

\* ------------------------------------------------------------------ urllib
SchemeSep == <<":", "/", "/">>

\* The 0-based offset at which the path of an absolute URL starts: the first
\* "/" after the network location (len(url) when there is none); 0 for a
\* reference without a scheme.
PathStart(url) ==
    IF \E k \in 0..Len(url) : MatchAt(url, SchemeSep, k)
    THEN LET k == CHOOSE k \in 0..Len(url) :
                      /\ MatchAt(url, SchemeSep, k)
                      /\ \A m \in 0..(k - 1) : ~MatchAt(url, SchemeSep, m)
             p == Find(url, "/", k + 3)
         IN  IF p = -1 THEN Len(url) ELSE p
    ELSE 0

\* urlparse(url).path: from the path's start up to a query or a fragment.
urlparse_path(url) ==
    LET rest == Slice(url, PathStart(url), Len(url))
        q == Find(rest, "?", 0)
        f == Find(rest, "#", 0)
        cut == IF q = -1 /\ f = -1 THEN Len(rest)
               ELSE IF q = -1 THEN f
               ELSE IF f = -1 THEN q
               ELSE Min(q, f)
    IN  Slice(rest, 0, cut)

\* urljoin(base, ref) for the bases and references of the model (no dot
\* segment, no empty path segment, no query, no bare network location): a
\* reference with a
\* scheme stands as it is, one that starts with "/" replaces the base's
\* path, and any other replaces the last segment of the base's path.
urljoin(base, ref) ==
    IF \E k \in 0..Len(ref) : MatchAt(ref, SchemeSep, k) THEN ref
    ELSE IF ref # <<>> /\ ref[1] = "/" THEN Slice(base, 0, PathStart(base)) \o ref
    ELSE LET path == urlparse_path(base)
             dirs == {k \in 1..Len(path) : path[k] = "/"}
             last == IF dirs = {} THEN 0
                     ELSE CHOOSE k \in dirs : \A m \in dirs : m <= k
         IN  IF path = <<>> THEN Slice(base, 0, PathStart(base)) \o <<"/">> \o ref
             ELSE Slice(base, 0, PathStart(base) + last) \o ref

\* --------------------------------------------------------- the upstream site
\* What the site serves in the model.  Two child sitemaps list a page with
\* the slug field-service; two pages carry the title Blog; one page has the
\* slug blog, without a hyphen; one page has neither h1 nor title; one URL
\* holds no keyword, and one holds a keyword only once lowercased.
U_BLOG ==
    <<"h","t","t","p","s",":","/","/","d","5","m","e","t","a",".","c","o","m","/","b","l","o","g","/">>
U_FS ==
    <<"h","t","t","p","s",":","/","/","d","5","m","e","t","a",".","c","o","m","/","b","l","o","g","/","f","i","e","l","d","-","s","e","r","v","i","c","e","/">>
U_SF_FS ==
    <<"h","t","t","p","s",":","/","/","d","5","m","e","t","a",".","c","o","m","/","s","a","l","e","s","f","o","r","c","e","/","f","i","e","l","d","-","s","e","r","v","i","c","e","/">>
U_ABOUT ==
    <<"h","t","t","p","s",":","/","/","d","5","m","e","t","a",".","c","o","m","/","a","b","o","u","t","-","u","s","/">>
U_ESIGN ==
    <<"h","t","t","p","s",":","/","/","d","5","m","e","t","a",".","c","o","m","/","B","l","o","g","/","e","-","s","i","g","n">>

T_BLOG == <<"B","l","o","g">>
T_FS == <<"F","i","e","l","d"," ","S","e","r","v","i","c","e">>

\* The loc entries of each child sitemap listed by the root sitemap index;
\* a child sitemap is named by its place in the index.
SitemapLocs == << <<U_FS, U_BLOG>>, <<U_SF_FS, U_ABOUT>>, <<U_ESIGN>> >>

Sitemaps == DOMAIN SitemapLocs

\* The text of the first h1, else of the title element, of each page, if any.
PageTitle(url) ==
    IF url = U_BLOG THEN Some(T_BLOG)
    ELSE IF url = U_FS THEN Some(T_FS)
    ELSE IF url = U_ESIGN THEN Some(T_BLOG)
    ELSE None

\* The queries of the model: an exact slug, an exact hyphenless slug that is
\* also close to a title, nothing close, a slug at similarity 1/2 exactly and
\* a title at similarity 3/5 exactly.
Q_FS == <<"F","i","e","l","d"," ","S","e","r","v","i","c","e">>
Q_BLOG == <<"b","l","o","g">>
Q_NONE == <<"z","z","z">>
Q_HALF == <<"e"," ","s","z","z","z">>
Q_SIXTY == <<"l","o","g","z","z","z">>

Queries == {Q_FS, Q_BLOG, Q_NONE, Q_HALF, Q_SIXTY}

\* ------------------------------------------------------------ the program
KEYWORDS ==
    {<<"b","l","o","g">>,
     <<"s","i","g","n","a","t","u","r","e">>,
     <<"s","a","l","e","s","f","o","r","c","e">>,
     <<"f","i","e","l","d">>,
     <<"s","e","r","v","i","c","e">>,
     <<"d","i","s","p","a","t","c","h","e","r">>}

\* The condition of the comprehension of get_all_blog_page_urls.
has_keyword(loc) == \E keyword \in KEYWORDS : Contains(Lower(loc), keyword)

\* [loc for loc in locs if any(keyword in loc.lower() ...)]
filter_locs(locs) == SelectSeq(locs, has_keyword)

slugify(text) == Replace(Lower(text), " ", "-")

\* d[k] = v on a dict, a function from its keys.
DictSet(d, k, v) == [x \in (DOMAIN d) \cup {k} |-> IF x = k THEN v ELSE d[x]]

\* slug_of without the trailing-slash case: always the last part.
slug_of_last_part(url) ==
    LET path_parts == Split(urlparse_path(url), "/")
    IN  IF Len(path_parts) >= 2 THEN Some(path_parts[Len(path_parts)]) ELSE None

\* The slug the loop of run_blog_search reads off a URL, if any: of the parts
\* of the path split at "/", the last, or the one before it when the last is
\* empty; none when the path has a single part.
slug_of(url) ==
    LET path_parts == Split(urlparse_path(url), "/")
        n == Len(path_parts)
    IN  IF n >= 2
        THEN Some(IF path_parts[n] = <<>> THEN path_parts[n - 1] ELSE path_parts[n])
        ELSE None

\* The loop that fills slug_url_map, over urls[0:n]: a slug is kept only if
\* it holds a hyphen, and a later URL overwrites an earlier one's entry.
RECURSIVE build_slug_url_map(_, _)
build_slug_url_map(urls_, n) ==
    IF n = 0 THEN <<>>
    ELSE LET d == build_slug_url_map(urls_, n - 1)
             slug == slug_of(urls_[n])
         IN  IF slug # None /\ Contains(slug[1], <<"-">>)
             THEN DictSet(d, slug[1], urls_[n])
             ELSE d

\* build_title_url_map keeping the first URL of a title (dict.setdefault).
RECURSIVE build_title_url_map_first(_, _)
build_title_url_map_first(results_, n) ==
    IF n = 0 THEN <<>>
    ELSE LET d == build_title_url_map_first(results_, n - 1)
             result_ == results_[n]
         IN  IF result_ # None /\ result_[1] \notin DOMAIN d
             THEN DictSet(d, result_[1], result_[2])
             ELSE d

\* The loop that fills title_url_map, over results[0:n].
RECURSIVE build_title_url_map(_, _)
build_title_url_map(results_, n) ==
    IF n = 0 THEN <<>>
    ELSE LET d == build_title_url_map(results_, n - 1)
             result_ == results_[n]
         IN  IF result_ # None
             THEN DictSet(d, result_[1], result_[2])
             ELSE d

\* get_title_from_url(url), given whether the GET succeeded.
get_title_from_url(url, ok) ==
    IF ok /\ PageTitle(url) # None THEN <<PageTitle(url)[1], url>> ELSE None

VIA == <<"M","a","t","c","h","e","d"," ","v","i","a"," ","U","R","L",":"," ">>


\* extend_urls assigning the list instead of extending it.
replace_urls(urls_, sitemap_content) ==
    IF sitemap_content # None /\ sitemap_content[1] # <<>>
    THEN filter_locs(sitemap_content[1])
    ELSE urls_

\* The collected list after the child sitemap with this content completes:
\* nothing is added for a fetch that failed (None) or returned nothing.
extend_urls(urls_, sitemap_content) ==
    IF sitemap_content # None /\ sitemap_content[1] # <<>>
    THEN urls_ \o filter_locs(sitemap_content[1])
    ELSE urls_

\* closest_slug at the cutoff of the titles, 0.6.
closest_slug_at_title_cutoff(search_query, slug_map) ==
    get_close_matches(slugify(search_query), DOMAIN slug_map, 3, 5)

\* close_slugs: the closest key of slug_url_map to the slugified query, at
\* cutoff 0.5.
closest_slug(search_query, slug_map) ==
    get_close_matches(slugify(search_query), DOMAIN slug_map, 1, 2)

\* best_match: the closest key of title_url_map to the raw query, at cutoff
\* 0.6.
closest_title(search_query, title_map) ==
    get_close_matches(search_query, DOMAIN title_map, 3, 5)

\* -------------------------------------------------------------- documents
\* A parsed page, as far as run_blog_search reads it: the blocks (p, h2, h3,
\* li) of the first div.elementor-widget-container, if there is one, those
\* of the body, if there is one, and the src of every img, if it has one.
\* A block is its text (get_text(strip=True)) and its text once script,
\* style and noscript are removed (clean_html).
MaxImages == 3
PreviewLen == 300

B_HI == [text |-> <<"H","i">>, clean |-> <<"H","i">>]
B_BLANK == [text |-> <<>>, clean |-> <<>>]
B_SCRIPT == [text |-> <<"x">>, clean |-> <<>>]
B_LONG ==
    LET long == [i \in 1..(PreviewLen + 1) |-> IF i > PreviewLen THEN "y" ELSE "x"]
    IN  [text |-> long, clean |-> long]

SRC_ROOTED == <<"/","a",".","p","n","g">>
SRC_ABS == <<"h","t","t","p","s",":","/","/","c",".","i","o","/","b",".","p","n","g">>
SRC_REL == <<"c",".","p","n","g">>

D_NOBODY == [container |-> None, body |-> None, imgs |-> <<Some(SRC_REL)>>]
D_EMPTY == [container |-> Some(<<>>), body |-> Some(<<B_HI>>), imgs |-> <<>>]
D_BLANK == [container |-> None, body |-> Some(<<B_SCRIPT, B_BLANK, B_SCRIPT>>),
            imgs |-> <<>>]
D_SHORT == [container |-> None, body |-> Some(<<B_HI, B_BLANK, B_SCRIPT, B_HI>>),
            imgs |-> <<None, Some(SRC_ROOTED), Some(SRC_ABS), Some(SRC_REL)>>]
D_LONG == [container |-> Some(<<B_LONG>>), body |-> Some(<<B_HI>>),
           imgs |-> <<Some(SRC_ABS)>>]

\* The documents the matched page may hold in the full search.
SiteDocs == {D_NOBODY, D_EMPTY, D_BLANK, D_SHORT, D_LONG}

\* An img element: without src, with an empty src, or with one of three.
ImgKinds == {None, Some(<<>>), Some(SRC_ROOTED), Some(SRC_ABS), Some(SRC_REL)}

\* The most img elements of a document.
MaxImgs == 4

\* Documents with every sequence of up to MaxImgs img elements.
ImgDocs ==
    {[container |-> None, body |-> Some(<<B_HI>>), imgs |-> s] :
        s \in UNION {[1..n -> ImgKinds] : n \in 0..MaxImgs}}

\* extract_blog_content(soup): None without container and body, else the
\* cleaned texts of the blocks that have text, joined by newlines, stripped.
extract_blog_content(doc) ==
    LET main_content == IF doc.container # None THEN doc.container ELSE doc.body
    IN  IF main_content = None THEN None
        ELSE LET HasText(b) == b.text # <<>>
                 content_blocks == SelectSeq(main_content[1], HasText)
                 cleaned == [i \in 1..Len(content_blocks) |-> content_blocks[i].clean]
             IN  Some(Strip(Join(cleaned, "\n")))

\* The loop over images[:3], over its first n elements: an img without src,
\* or with an empty one, adds nothing.
RECURSIVE image_loop(_, _, _)
image_loop(images, n, match_url_) ==
    IF n = 0 THEN <<>>
    ELSE LET src == images[n]
         IN  IF src # None /\ src[1] # <<>>
             THEN Append(image_loop(images, n - 1, match_url_), urljoin(match_url_, src[1]))
             ELSE image_loop(images, n - 1, match_url_)

\* image_urls_of taking the first 3 of the images that have a src.
image_urls_of_with_src(images, match_url_) ==
    LET HasSrc(src) == src # None /\ src[1] # <<>>
        first == Slice(SelectSeq(images, HasSrc), 0, MaxImages)
    IN  image_loop(first, Len(first), match_url_)

image_urls_of(images, match_url_) ==
    LET first == Slice(images, 0, MaxImages)
    IN  image_loop(first, Len(first), match_url_)

\* content_preview without the cut.
content_preview_whole(content) == content

content_preview(content) == Slice(content, 0, PreviewLen)

NoUrlsMsg == <<"No blog URLs found from sitemap.">>
NoMatchMsg == <<"No matching blog found.">>
FetchFailedMsg(url) == <<"Failed to fetch blog HTML for ", url, ".">>
ExtractFailedMsg == <<"Failed to extract blog content.">>

\* What run_blog_search returns once a match is found, from the result of
\* fetch_blog_soup (None, or the parsed page).
content_result(match_title_, match_url_, soup_) ==
    IF soup_ = None THEN [error |-> FetchFailedMsg(match_url_)]
    ELSE LET content == extract_blog_content(soup_[1])
         IN  IF content = None \/ content[1] = <<>>
             THEN [error |-> ExtractFailedMsg]
             ELSE [title |-> match_title_,
                   url |-> match_url_,
                   content_preview |-> content_preview(content[1]),
                   full_content |-> content[1],
                   image_urls |-> image_urls_of(soup_[1].imgs, match_url_)]


\* ------------------------------------------------------------- the endpoint
\* BlogSearchResult(**fields).  title, url, content_preview and full_content
\* are declared Optional[str] with no default: pydantic 1 gives such a field
\* the default None, pydantic 2 requires it and raises a ValidationError
\* when it is missing.  The source pins no version.  None stands for the
\* exception.
BlogSearchResult(fields, required_optionals) ==
    LET Get(k) == IF k \in DOMAIN fields THEN Some(fields[k]) ELSE None
        needed == {"title", "url", "content_preview", "full_content"}
    IN  IF required_optionals /\ ~(needed \subseteq DOMAIN fields) THEN None
        ELSE Some([title |-> Get("title"),
                   url |-> Get("url"),
                   content_preview |-> Get("content_preview"),
                   full_content |-> Get("full_content"),
                   image_urls |-> IF "image_urls" \in DOMAIN fields
                                  THEN fields.image_urls ELSE <<>>,
                   message |-> Get("message"),
                   error |-> Get("error")])

InternalErrorPrefix == "An internal server error occurred: "

\* search_blog_endpoint, from the dict run_blog_search returned.
search_blog_endpoint(result_, required_optionals) ==
    IF "error" \in DOMAIN result_
    THEN [status |-> 500, detail |-> result_.error]
    ELSE LET model == IF "message" \in DOMAIN result_
                      THEN BlogSearchResult([message |-> result_.message],
                                            required_optionals)
                      ELSE BlogSearchResult(result_, required_optionals)
         IN  IF model = None
             THEN [status |-> 500,
                   detail |-> <<InternalErrorPrefix, "ValidationError">>]
             ELSE [status |-> 200, body |-> model[1]]

\* ---------------------------------------------------------------- the state
VARIABLES
    query,          \* request.query
    rootOk,         \* whether the GET of the root sitemap index succeeds
    smFail,         \* the child sitemaps whose GET fails
    pgFail,         \* the pages whose GET fails during the title fan-out
    pc,             \* where the request is
    submitted,      \* the child-sitemap tasks submitted to the first pool
    pending,        \* those of them not yet completed
    urls,           \* urls, in the order the child sitemaps completed
    resolved,       \* the indexes of urls whose title task has completed
    results,        \* results, aligned with urls
    title_url_map,
    slug_url_map,
    path,           \* "slug" or "title" once the matcher took that branch
    match_title,
    match_url,
    fetches,        \* how many times fetch_blog_soup was called
    soup,           \* what it returned
    result,         \* what run_blog_search returned
    response        \* what the endpoint answered

vars == <<query, rootOk, smFail, pgFail, pc, submitted, pending, urls, resolved,
          results, title_url_map, slug_url_map, path, match_title, match_url,
          fetches, soup, result, response>>

\* The most pages whose title fetch fails in one request.
MaxTitleFail == 2

\* The pages that pass the keyword filter.
Pages == {SitemapLocs[s][i] : <<s, i>> \in
              {x \in Sitemaps \X (1..3) : x[2] <= Len(SitemapLocs[x[1]])
                                          /\ has_keyword(SitemapLocs[x[1]][x[2]])}}

\* No child sitemap and no page is fetched when the root sitemap fails.
Init ==
    /\ query \in Queries
    /\ rootOk \in BOOLEAN
    /\ smFail \in SUBSET Sitemaps
    /\ pgFail \in {S \in SUBSET Pages : Cardinality(S) <= MaxTitleFail}
    /\ ~rootOk => smFail = {} /\ pgFail = {}
    /\ pc = "start"
    /\ submitted = {}
    /\ pending = {}
    /\ urls = <<>>
    /\ resolved = {}
    /\ results = <<>>
    /\ title_url_map = <<>>
    /\ slug_url_map = <<>>
    /\ path = "none"
    /\ match_title = None
    /\ match_url = None
    /\ fetches = 0
    /\ soup = None
    /\ result = None
    /\ response = None

\* get_sitemap_urls letting a failed fetch of the index through.
get_sitemap_urls_unchecked == Sitemaps

\* get_sitemap_urls(): the child sitemaps the root index lists, [] when its
\* fetch fails.
get_sitemap_urls == IF rootOk THEN Sitemaps ELSE {}

\* fetch_sitemap_content(sitemap_url): the content, None when the fetch fails.
fetch_sitemap_content(s) == IF s \in smFail THEN None ELSE Some(SitemapLocs[s])

\* The as_completed loop has consumed every future and the pool has shut down.
sitemaps_joined == pending = {}

\* titles_joined as soon as one title task has completed.
titles_joined_early == resolved # {}

\* list(executor.map(...)) has every result and the pool has shut down.
titles_joined == resolved = DOMAIN urls

\* run_blog_search starts: get_all_blog_page_urls fetches the root sitemap
\* and submits one task per child sitemap.
Submit ==
    /\ pc = "start"
    /\ submitted' = get_sitemap_urls
    /\ pending' = get_sitemap_urls
    /\ pc' = "sitemaps"
    /\ UNCHANGED <<query, rootOk, smFail, pgFail, urls, resolved, results,
                   title_url_map, slug_url_map, path, match_title, match_url,
                   fetches, soup, result, response>>

\* One child-sitemap task completes, in any order, and the loop over
\* as_completed extends urls with its filtered entries.  The pool has 5
\* workers and the index lists 3 child sitemaps, so no task waits for a
\* worker.
SitemapCompleted(s) ==
    /\ pc = "sitemaps"
    /\ s \in pending
    /\ pending' = pending \ {s}
    /\ urls' = extend_urls(urls, fetch_sitemap_content(s))
    /\ UNCHANGED <<query, rootOk, smFail, pgFail, pc, submitted, resolved, results,
                   title_url_map, slug_url_map, path, match_title, match_url,
                   fetches, soup, result, response>>

\* get_all_blog_page_urls returns: without URLs run_blog_search returns the
\* error, else it submits one title task per URL.
CrawlDone ==
    /\ pc = "sitemaps"
    /\ sitemaps_joined
    /\ IF urls = <<>>
       THEN /\ result' = Some([error |-> NoUrlsMsg])
            /\ pc' = "respond"
            /\ UNCHANGED results
       ELSE /\ results' = [i \in DOMAIN urls |-> None]
            /\ pc' = "titles"
            /\ UNCHANGED result
    /\ UNCHANGED <<query, rootOk, smFail, pgFail, submitted, pending, urls, resolved,
                   title_url_map, slug_url_map, path, match_title, match_url,
                   fetches, soup, response>>

\* One title task completes, in any order; executor.map keeps its result at
\* the place of its URL.  The pool has 10 workers and at most 4 URLs pass
\* the filter, so no task waits for a worker.
TitleResolved(i) ==
    /\ pc = "titles"
    /\ i \in (DOMAIN urls) \ resolved
    /\ resolved' = resolved \cup {i}
    /\ results' = [results EXCEPT ![i] = get_title_from_url(urls[i], urls[i] \notin pgFail)]
    /\ UNCHANGED <<query, rootOk, smFail, pgFail, pc, submitted, pending, urls,
                   title_url_map, slug_url_map, path, match_title, match_url,
                   fetches, soup, result, response>>

\* The slug branch of the matcher: the URL of the closest slug, and a title
\* fetched again by a GET of its own, which succeeds or not; without a title
\* the label "Matched via URL: <slug>".
SlugBranch(smap, best_slug, ok) ==
    /\ path' = "slug"
    /\ match_url' = Some(smap[best_slug])
    /\ match_title' = Some(IF get_title_from_url(smap[best_slug], ok) # None
                           THEN get_title_from_url(smap[best_slug], ok)[1]
                           ELSE VIA \o best_slug)
    /\ pc' = "fetch"
    /\ UNCHANGED result

\* The title branch: the closest title and its URL, or the message.
TitleBranch(tmap, best_match) ==
    /\ path' = "title"
    /\ IF best_match = <<>>
       THEN /\ result' = Some([message |-> NoMatchMsg])
            /\ pc' = "respond"
            /\ UNCHANGED <<match_title, match_url>>
       ELSE /\ match_title' = Some(best_match[1])
            /\ match_url' = Some(tmap[best_match[1]])
            /\ pc' = "fetch"
            /\ UNCHANGED result

\* if close_slugs: ... else: ...
Branch(tmap, smap, close_slugs) ==
    IF close_slugs # <<>>
    THEN \E ok \in BOOLEAN : SlugBranch(smap, close_slugs[1], ok)
    ELSE TitleBranch(tmap, closest_title(query, tmap))

MatchWith(tmap, smap) ==
    /\ title_url_map' = tmap
    /\ slug_url_map' = smap
    /\ Branch(tmap, smap, closest_slug(query, smap))

\* The matcher, once every title task has completed: both maps are built,
\* then the closest slug is looked for, and only without one the closest
\* title.
Match ==
    /\ pc = "titles"
    /\ titles_joined
    /\ MatchWith(build_title_url_map(results, Len(results)),
                 build_slug_url_map(urls, Len(urls)))
    /\ UNCHANGED <<query, rootOk, smFail, pgFail, submitted, pending, urls, resolved,
                   results, fetches, soup, response>>

\* fetch_blog_soup(match_url), which fails or returns one of docs, then the
\* extraction and the return of run_blog_search.
FetchContent(docs) ==
    /\ pc = "fetch"
    /\ \E s \in {None} \cup {Some(d) : d \in docs} :
          /\ soup' = s
          /\ result' = Some(content_result(match_title[1], match_url[1], s))
    /\ fetches' = fetches + 1
    /\ pc' = "respond"
    /\ UNCHANGED <<query, rootOk, smFail, pgFail, submitted, pending, urls, resolved,
                   results, title_url_map, slug_url_map, path, match_title,
                   match_url, response>>

\* The endpoint answers, under either reading of an Optional field without
\* a default.
Respond ==
    /\ pc = "respond"
    /\ \E required_optionals \in BOOLEAN :
          response' = Some(search_blog_endpoint(result[1], required_optionals))
    /\ pc' = "done"
    /\ UNCHANGED <<query, rootOk, smFail, pgFail, submitted, pending, urls, resolved,
                   results, title_url_map, slug_url_map, path, match_title,
                   match_url, fetches, soup, result>>

Next ==
    \/ Submit
    \/ \E s \in Sitemaps : SitemapCompleted(s)
    \/ CrawlDone
    \/ \E i \in 1..Cardinality(Pages) + 1 : TitleResolved(i)
    \/ Match
    \/ FetchContent(SiteDocs)
    \/ Respond

Spec == Init /\ [][Next]_vars


\* The content stage under every document: the search with no failing
\* fetch before the match, and the matched page holding any sequence of up
\* to MaxImgs img elements.
InitContent ==
    /\ Init
    /\ query \in {Q_FS, Q_BLOG}
    /\ rootOk
    /\ smFail = {}
    /\ pgFail = {}

NextContent ==
    \/ Submit
    \/ \E s \in Sitemaps : SitemapCompleted(s)
    \/ CrawlDone
    \/ \E i \in 1..Cardinality(Pages) + 1 : TitleResolved(i)
    \/ Match
    \/ FetchContent(SiteDocs \cup ImgDocs)
    \/ Respond

SpecContent == InitContent /\ [][NextContent]_vars

\* ------------------------------------------------------------- properties
Returned == pc \in {"respond", "done"}

IsSuccess(r) == r # None /\ "full_content" \in DOMAIN r[1]
IsError(r, msg) == r # None /\ "error" \in DOMAIN r[1] /\ r[1].error = msg
IsMessage(r, msg) == r # None /\ "message" \in DOMAIN r[1] /\ r[1].message = msg

\* The slug of a URL read off its path without splitting it: the text after the
\* last "/" of the path, one trailing "/" set aside; none for an empty path.
PathSlug(url) ==
    LET whole == urlparse_path(url)
        p == IF whole # <<>> /\ whole[Len(whole)] = "/"
             THEN SubSeq(whole, 1, Len(whole) - 1) ELSE whole
        cuts == {k \in 1..Len(p) : p[k] = "/"}
        last == IF cuts = {} THEN 0 ELSE CHOOSE k \in cuts : \A m \in cuts : m <= k
    IN  IF whole = <<>> THEN None ELSE Some(SubSeq(p, last + 1, Len(p)))

HasHyphen(str) == \E k \in 1..Len(str) : str[k] = "-"

\* The slugs of the collected URLs, and those of them that hold a hyphen.
CandidateSlugs == {PathSlug(urls[i])[1] : i \in {j \in DOMAIN urls : PathSlug(urls[j]) # None}}
HyphenSlugs == {g \in CandidateSlugs : HasHyphen(g)}

\* The titles the title fan-out resolved.
ResolvedTitles == {results[i][1] : i \in {j \in DOMAIN results : results[j] # None}}

\* Similarity of a candidate string to a word, against the fraction num/den.
Similar(x, word, num, den) == AtLeast(ratio(x, word), num, den)

\* C1: whenever the crawl ends with an empty URL list, which it does when the
\* root sitemap fetch fails, run_blog_search returns the error "No blog URLs
\* found from sitemap." and not the NoMatch message; no title is resolved, no
\* matching is done, no content is fetched, and the endpoint answers 500
\* with that message.
C1_EmptyCrawlIsError ==
    /\ (~rootOk /\ pc \notin {"start", "sitemaps"}) => urls = <<>>
    /\ (urls = <<>> /\ pc \notin {"start", "sitemaps"}) =>
          /\ IsError(result, NoUrlsMsg)
          /\ resolved = {} /\ results = <<>>
          /\ path = "none" /\ match_url = None /\ match_title = None
          /\ fetches = 0
          /\ pc = "done" => response = Some([status |-> 500, detail |-> NoUrlsMsg])

C1_Witness == pc = "done" /\ ~rootOk /\ urls = <<>> /\ response # None

C1_WitnessAllFiltered == pc = "done" /\ rootOk /\ urls = <<>>

\* C2, as stated: once the matcher has run on a non-empty URL list, if the
\* slugified query equals the slug of some candidate URL, the slug branch
\* was taken and the matched URL is a candidate with that slug.
C2_Original ==
    (path # "none" /\ slugify(query) \in CandidateSlugs) =>
        /\ path = "slug"
        /\ match_url # None
        /\ \E i \in DOMAIN urls : urls[i] = match_url[1]
        /\ PathSlug(match_url[1]) = Some(slugify(query))

\* C2, amended: the same when that slug holds a hyphen.
C2_ExactHyphenSlug ==
    (path # "none" /\ slugify(query) \in HyphenSlugs) =>
        /\ path = "slug"
        /\ match_url # None
        /\ \E i \in DOMAIN urls : urls[i] = match_url[1]
        /\ PathSlug(match_url[1]) = Some(slugify(query))

C2_Witness ==
    /\ pc = "fetch" /\ path = "slug"
    /\ query = Q_FS
    /\ slugify(query) \in HyphenSlugs
    /\ PathSlug(match_url[1]) = Some(slugify(query))

\* The states the matcher leaves: a match to fetch, or the message returned.
AfterMatcher == pc = "fetch" \/ (pc = "respond" /\ path # "none" /\ fetches = 0)

\* C3, as stated: title matching is attempted if and only if no candidate
\* slug has similarity >= 0.5 to the slugified query; and then, if no
\* resolved title has similarity >= 0.6 to the raw query, the search
\* returns the message "No matching blog found." and fetches no content.
C3_Original ==
    /\ AfterMatcher =>
          (path = "title" <=>
              ~\E g \in CandidateSlugs : Similar(g, slugify(query), 1, 2))
    /\ (AfterMatcher /\ path = "title"
           /\ ~\E t \in ResolvedTitles : Similar(t, query, 3, 5)) =>
          IsMessage(result, NoMatchMsg) /\ pc = "respond" /\ match_url = None
    /\ IsMessage(result, NoMatchMsg) => fetches = 0 /\ soup = None

\* C3, amended: title matching is attempted if and only if no candidate slug
\* that holds a hyphen has similarity >= 0.5 to the slugified query; the
\* rest as stated.
C3_TitleFallback ==
    /\ AfterMatcher =>
          (path = "title" <=>
              ~\E g \in HyphenSlugs : Similar(g, slugify(query), 1, 2))
    /\ (AfterMatcher /\ path = "title"
           /\ ~\E t \in ResolvedTitles : Similar(t, query, 3, 5)) =>
          IsMessage(result, NoMatchMsg) /\ pc = "respond" /\ match_url = None
    /\ IsMessage(result, NoMatchMsg) => fetches = 0 /\ soup = None

C3_Witness ==
    /\ pc = "done" /\ path = "title"
    /\ ResolvedTitles # {} /\ HyphenSlugs # {}
    /\ IsMessage(result, NoMatchMsg)

C3_WitnessSlugAtCutoff ==
    /\ path = "slug" /\ query = Q_HALF
    /\ \E g \in HyphenSlugs : ratio(g, slugify(query)) = <<6, 12>>

\* The indexes of urls whose title task resolved to title t.
ResolvedTo(t) == {i \in DOMAIN results : results[i] # None /\ results[i][1] = t}

FirstOf(S) == CHOOSE i \in S : \A j \in S : i <= j
LastOf(S) == CHOOSE i \in S : \A j \in S : i >= j

\* C4, as stated: the title map sends every resolved title to the URL of the
\* first candidate, in list order, that resolved to it, and a title match
\* returns that URL.
C4_Original ==
    path # "none" =>
        /\ \A t \in ResolvedTitles : title_url_map[t] = urls[FirstOf(ResolvedTo(t))]
        /\ (path = "title" /\ match_url # None) =>
              match_url[1] = urls[FirstOf(ResolvedTo(match_title[1]))]

\* C4, amended: ... of the last candidate, in list order, that resolved to it.
C4_LastResolvedWins ==
    path # "none" =>
        /\ DOMAIN title_url_map = ResolvedTitles
        /\ \A t \in ResolvedTitles : title_url_map[t] = urls[LastOf(ResolvedTo(t))]
        /\ (path = "title" /\ match_url # None) =>
              match_url[1] = urls[LastOf(ResolvedTo(match_title[1]))]

C4_Witness ==
    /\ path = "title" /\ match_url # None
    /\ Cardinality(ResolvedTo(match_title[1])) >= 2
    /\ urls[FirstOf(ResolvedTo(match_title[1]))] # match_url[1]


\* C5: the endpoint maps a success to 200 with title, url, content_preview,
\* full_content and image_urls set; the NoMatch message to 200 with message
\* set and title, url, content_preview and full_content null; an error of
\* the search to 500 with the error message as detail.
C5_EndpointMapping ==
    pc = "done" =>
        /\ IsSuccess(result) =>
              /\ response[1].status = 200
              /\ response[1].body.title = Some(result[1].title)
              /\ response[1].body.url = Some(result[1].url)
              /\ response[1].body.content_preview = Some(result[1].content_preview)
              /\ response[1].body.full_content = Some(result[1].full_content)
              /\ response[1].body.image_urls = result[1].image_urls
        /\ IsMessage(result, NoMatchMsg) =>
              /\ response[1].status = 200
              /\ response[1].body.message = Some(NoMatchMsg)
              /\ response[1].body.title = None
              /\ response[1].body.url = None
              /\ response[1].body.content_preview = None
              /\ response[1].body.full_content = None
        /\ (result # None /\ "error" \in DOMAIN result[1]) =>
              response[1] = [status |-> 500, detail |-> result[1].error]

\* The images of the fetched page that have a src, in document order.
WithSrc(images) == {i \in DOMAIN images : images[i] # None /\ images[i][1] # <<>>}

\* The n-th smallest element of a set of indexes.
Nth(S, n) == CHOOSE i \in S : Cardinality({j \in S : j <= i}) = n

\* C6, as stated: image_urls holds the first min(3, k) src attributes, in
\* document order, of the k img elements that have a src, each resolved
\* against the matched URL; an img without src does not count toward the 3.
C6_Original ==
    (Returned /\ IsSuccess(result)) =>
        LET images == soup[1].imgs
            S == WithSrc(images)
            got == result[1].image_urls
        IN  /\ Len(got) = Min(MaxImages, Cardinality(S))
            /\ \A n \in 1..Len(got) : got[n] = urljoin(match_url[1], images[Nth(S, n)][1])

\* C6, amended: image_urls holds the src attributes, in document order, of
\* those of the first 3 img elements that have a non-empty src; an img
\* without one among the first 3 still counts toward the 3.
C6_FirstThreeElements ==
    (Returned /\ IsSuccess(result)) =>
        LET images == soup[1].imgs
            S == {i \in WithSrc(images) : i <= MaxImages}
            got == result[1].image_urls
        IN  /\ Len(got) = Cardinality(S)
            /\ \A n \in 1..Len(got) : got[n] = urljoin(match_url[1], images[Nth(S, n)][1])

C6_Witness ==
    /\ pc = "done" /\ IsSuccess(result)
    /\ Len(soup[1].imgs) = 4
    /\ soup[1].imgs[2] = None
    /\ Cardinality(WithSrc(soup[1].imgs)) = 3
    /\ Len(result[1].image_urls) = 2
    /\ result[1].image_urls[1] # soup[1].imgs[1][1]

\* How many times u occurs in a list.
CountIn(list, u) == Cardinality({i \in DOMAIN list : list[i] = u})

\* How many entries of the child sitemaps that were fetched hold u.
Listed(u) ==
    Cardinality({x \in (submitted \ smFail) \X (1..Cardinality(Pages) + 1) :
                    /\ x[2] <= Len(SitemapLocs[x[1]])
                    /\ SitemapLocs[x[1]][x[2]] = u})

\* C7: whichever child-sitemap fetches and title fetches fail, both fan-out
\* stages complete; the URL list holds exactly the entries with a keyword
\* of the child sitemaps that were fetched, the title map exactly the
\* titles of the pages that resolved; and the search returns the error of
\* the crawl only when the URL list is empty.
C7_FailuresStayLocal ==
    /\ pc \notin {"start", "sitemaps"} =>
          /\ pending = {}
          /\ submitted = (IF rootOk THEN Sitemaps ELSE {})
          /\ \A u \in Pages : CountIn(urls, u) = Listed(u)
          /\ \A i \in DOMAIN urls : urls[i] \in Pages
    /\ path # "none" =>
          /\ resolved = DOMAIN urls
          /\ DOMAIN title_url_map =
                {PageTitle(urls[i])[1] :
                    i \in {j \in DOMAIN urls :
                              urls[j] \notin pgFail /\ PageTitle(urls[j]) # None}}
    /\ Returned => (IsError(result, NoUrlsMsg) <=> urls = <<>>)

C7_Witness ==
    /\ pc = "done" /\ IsSuccess(result)
    /\ smFail # {} /\ Len(urls) >= 2
    /\ \E i \in DOMAIN urls : urls[i] \in pgFail
    /\ title_url_map # <<>>

\* C8: title resolution starts only once every child-sitemap task has
\* completed, and the matcher only once the title task of every URL has
\* completed: no stage is left early and no task is dropped.
C8_StagesJoin ==
    /\ (pc = "titles" \/ results # <<>> \/ resolved # {} \/ path # "none") =>
          (pending = {} /\ submitted = Sitemaps)
    /\ (path # "none" \/ pc = "fetch" \/ match_url # None \/ fetches > 0) =>
          (resolved = DOMAIN urls /\ Len(results) = Len(urls))

C8_Witness ==
    /\ pc = "fetch" /\ path = "slug"
    /\ Len(urls) = 4
    /\ results[1] # None /\ PathSlug(results[1][2]) = Some(slugify(query))
    /\ resolved = 1..4

\* C9: a success is returned only if the matched page was fetched and its
\* extracted text is non-empty; a failed fetch gives "Failed to fetch blog
\* HTML for <url>.", no or empty extracted text gives "Failed to extract
\* blog content."; a success carries the non-empty text, its first 300
\* characters as preview, and the matched URL.
C9_SuccessHasContent ==
    (Returned /\ path # "none" /\ ~IsMessage(result, NoMatchMsg)) =>
        /\ fetches = 1
        /\ soup = None => IsError(result, FetchFailedMsg(match_url[1]))
        /\ (soup # None /\ soup[1].container = None /\ soup[1].body = None) =>
              IsError(result, ExtractFailedMsg)
        /\ (soup # None /\ extract_blog_content(soup[1]) \in {None, Some(<<>>)}) =>
              IsError(result, ExtractFailedMsg)
        /\ IsSuccess(result) =>
              /\ soup # None
              /\ result[1].full_content # <<>>
              /\ Some(result[1].full_content) = extract_blog_content(soup[1])
              /\ Len(result[1].content_preview) = Min(PreviewLen, Len(result[1].full_content))
              /\ \A i \in 1..Len(result[1].content_preview) :
                    result[1].content_preview[i] = result[1].full_content[i]
              /\ result[1].url = match_url[1]
        /\ IsSuccess(result) \/ IsError(result, ExtractFailedMsg)
              \/ IsError(result, FetchFailedMsg(match_url[1]))

C9_Witness ==
    /\ pc = "done" /\ IsSuccess(result)
    /\ Len(result[1].full_content) > PreviewLen
    /\ Len(result[1].content_preview) = PreviewLen

\* The URL list had the child sitemaps completed in the order of the index.
RECURSIVE InOrderUrls(_)
InOrderUrls(n) ==
    IF n = 0 THEN <<>>
    ELSE extend_urls(InOrderUrls(n - 1), fetch_sitemap_content(n))

\* The URL the matcher picks for a URL list and the titles of its pages.
PickFrom(tmap, smap, close_slugs) ==
    IF close_slugs # <<>> THEN Some(smap[close_slugs[1]])
    ELSE IF closest_title(query, tmap) # <<>>
         THEN Some(tmap[closest_title(query, tmap)[1]])
         ELSE None

PickWith(tmap, smap) == PickFrom(tmap, smap, closest_slug(query, smap))

PickOf(list) ==
    PickWith(build_title_url_map(
                 [i \in DOMAIN list |-> get_title_from_url(list[i], list[i] \notin pgFail)],
                 Len(list)),
             build_slug_url_map(list, Len(list)))

\* C10: for a fixed query and fixed upstream responses the matched URL is
\* the same under every completion order of the child-sitemap fetches: it
\* is the one matched when they complete in the order of the index.
C10_OrderIndependent ==
    AfterMatcher => match_url = PickOf(InOrderUrls(Cardinality(submitted)))

====
